---- MODULE Spec2Model ----
(***************************************************************************)
(* Credential store of the Quantum Inspire SDK                             *)
(* (src/quantuminspire/credentials.py).                                    *)
(*                                                                         *)
(* Two storage tiers: the resource file (qirc) and the process environment *)
(* variable QI_TOKEN.  Text is modelled character by character: a string   *)
(* is a sequence of one-character strings, the resource file is the        *)
(* sequence of characters json.dump wrote (or anything an external edit    *)
(* left there), and json.load is a parser over that sequence.              *)
(***************************************************************************)
EXTENDS Integers, Sequences, FiniteSets, TLC

\* Longest token the operations are called with.
MaxLen == 1

\* Characters tokens are drawn from: a plain one, the double quote and the
\* backslash (the two characters json.dump has to escape).
TokenChar == {"a", "\"", "\\"}

Tokens == UNION {[1..k -> TokenChar] : k \in 0..MaxLen}

-----------------------------------------------------------------------------
(* Python values, as far as json.load can produce them.                    *)
(* One record shape for all of them: t is the type, s the characters of a  *)
(* str, n the value of an int, items the elements of a list or the         *)
(* key/value pairs of a dict.                                              *)

PyValue(t, s, n, items) == [t |-> t, s |-> s, n |-> n, items |-> items]

None      == PyValue("None", <<>>, 0, <<>>)
PyTrue    == PyValue("bool", <<>>, 1, <<>>)
PyFalse   == PyValue("bool", <<>>, 0, <<>>)
PyStr(s)    == PyValue("str", s, 0, <<>>)
PyInt(n)    == PyValue("int", <<>>, n, <<>>)
PyList(xs)  == PyValue("list", <<>>, 0, xs)
PyDict(kvs) == PyValue("dict", <<>>, 0, kvs)

\* bool(v)
Truthy(v) ==
    CASE v.t = "None" -> FALSE
      [] v.t = "bool" -> v.n = 1
      [] v.t = "int"  -> v.n # 0
      [] v.t = "str"  -> v.s # <<>>
      [] OTHER        -> v.items # <<>>

\* len(v) raises TypeError for a value that has no length.
HasLen(v) == v.t \in {"str", "list", "dict"}

\* v[key] for a str key: the last pair of that key in a dict (json.load keeps
\* the last of duplicate keys), KeyError when the dict has none, TypeError
\* when v is no dict.
Subscript(v, key) ==
    IF v.t # "dict" THEN [exc |-> "TypeError", val |-> None]
    ELSE LET hits == {i \in 1..Len(v.items) : v.items[i].k = key}
         IN  IF hits = {} THEN [exc |-> "KeyError", val |-> None]
             ELSE [exc |-> "none",
                   val |-> v.items[CHOOSE i \in hits : \A j \in hits : j <= i].v]

-----------------------------------------------------------------------------
(* json.dump(accounts, config_file, indent=2) for accounts = {'token': t}  *)

\* The encoder's escape of one character (ensure_ascii encoder).
EscapeChar(c) ==
    CASE c = "\"" -> <<"\\", "\"">>
      [] c = "\\" -> <<"\\", "\\">>
      [] c = "\n" -> <<"\\", "n">>
      [] c = "\t" -> <<"\\", "t">>
      [] OTHER    -> <<c>>

RECURSIVE Escape(_)
Escape(s) == IF s = <<>> THEN <<>> ELSE EscapeChar(Head(s)) \o Escape(Tail(s))

Quoted(s) == <<"\"">> \o Escape(s) \o <<"\"">>

TokenKey == <<"t", "o", "k", "e", "n">>

\* A faulty json_dump: the token is written between quotes as it is.
json_dump_unescaped(token) ==
    <<"{", "\n", " ", " ">> \o Quoted(TokenKey) \o <<":", " ">>
        \o <<"\"">> \o token \o <<"\"">> \o <<"\n", "}">>

json_dump(token) ==
    <<"{", "\n", " ", " ">> \o Quoted(TokenKey) \o <<":", " ">>
        \o Quoted(token) \o <<"\n", "}">>

-----------------------------------------------------------------------------
(* json.load(file): a recursive-descent parser of the JSON subset made of  *)
(* objects, arrays, strings, non-negative integers, null, true and false.  *)
(* A parse step returns [ok, val, rest]; ok = FALSE is json's ValueError.  *)

Drop(s, n) == SubSeq(s, n + 1, Len(s))

IsPrefix(p, s) == Len(p) <= Len(s) /\ SubSeq(s, 1, Len(p)) = p

ParseFail == [ok |-> FALSE, val |-> None, rest |-> <<>>]

Parsed(v, rest) == [ok |-> TRUE, val |-> v, rest |-> rest]

Whitespace == {" ", "\n", "\t"}

Digits == {"0", "1", "2", "3", "4", "5", "6", "7", "8", "9"}

DigitVal(c) ==
    CASE c = "0" -> 0 [] c = "1" -> 1 [] c = "2" -> 2 [] c = "3" -> 3
      [] c = "4" -> 4 [] c = "5" -> 5 [] c = "6" -> 6 [] c = "7" -> 7
      [] c = "8" -> 8 [] OTHER -> 9

RECURSIVE SkipWs(_)
SkipWs(s) == IF s # <<>> /\ Head(s) \in Whitespace THEN SkipWs(Tail(s)) ELSE s

\* The decoder's table of one-character escapes.
Unescapable == {"\"", "\\", "n", "t"}

Unescape(c) ==
    CASE c = "n" -> "\n"
      [] c = "t" -> "\t"
      [] OTHER   -> c

\* The characters of a string up to its closing quote; s starts after the
\* opening quote.  A raw control character is an error (strict mode).
RECURSIVE ScanString(_, _)
ScanString(s, acc) ==
    IF s = <<>> THEN ParseFail
    ELSE IF Head(s) = "\"" THEN Parsed(PyStr(acc), Tail(s))
    ELSE IF Head(s) = "\\"
         THEN IF Len(s) >= 2 /\ s[2] \in Unescapable
              THEN ScanString(Drop(s, 2), Append(acc, Unescape(s[2])))
              ELSE ParseFail
    ELSE IF Head(s) \in {"\n", "\t"} THEN ParseFail
    ELSE ScanString(Tail(s), Append(acc, Head(s)))

\* The digits of an integer; s starts after its first digit.
RECURSIVE ScanDigits(_, _)
ScanDigits(s, n) ==
    IF s # <<>> /\ Head(s) \in Digits
    THEN ScanDigits(Tail(s), 10 * n + DigitVal(Head(s)))
    ELSE Parsed(PyInt(n), s)

RECURSIVE ParseValue(_)
RECURSIVE ParseElements(_, _)
RECURSIVE ParseMembers(_, _)

\* After '[': the empty list, or the elements.
ParseArray(r) ==
    IF r # <<>> /\ Head(r) = "]" THEN Parsed(PyList(<<>>), Tail(r))
    ELSE ParseElements(r, <<>>)

\* After '{': the empty dict, or the members.
ParseObject(r) ==
    IF r # <<>> /\ Head(r) = "}" THEN Parsed(PyDict(<<>>), Tail(r))
    ELSE ParseMembers(r, <<>>)

\* The value that starts at the first character of s.
ParseValueAt(s) ==
    IF s = <<>> THEN ParseFail
    ELSE IF Head(s) = "\"" THEN ScanString(Tail(s), <<>>)
    ELSE IF Head(s) = "0" THEN Parsed(PyInt(0), Tail(s))
    ELSE IF Head(s) \in Digits THEN ScanDigits(Tail(s), DigitVal(Head(s)))
    ELSE IF IsPrefix(<<"n", "u", "l", "l">>, s) THEN Parsed(None, Drop(s, 4))
    ELSE IF IsPrefix(<<"t", "r", "u", "e">>, s) THEN Parsed(PyTrue, Drop(s, 4))
    ELSE IF IsPrefix(<<"f", "a", "l", "s", "e">>, s) THEN Parsed(PyFalse, Drop(s, 5))
    ELSE IF Head(s) = "[" THEN ParseArray(SkipWs(Tail(s)))
    ELSE IF Head(s) = "{" THEN ParseObject(SkipWs(Tail(s)))
    ELSE ParseFail

ParseValue(text) == ParseValueAt(SkipWs(text))

\* After an element v: ']' ends the list, ',' brings the next element.
ElementSep(r, v, acc) ==
    IF r = <<>> THEN ParseFail
    ELSE IF Head(r) = "]" THEN Parsed(PyList(Append(acc, v)), Tail(r))
    ELSE IF Head(r) = "," THEN ParseElements(Tail(r), Append(acc, v))
    ELSE ParseFail

AfterElement(e, acc) ==
    IF ~e.ok THEN ParseFail ELSE ElementSep(SkipWs(e.rest), e.val, acc)

\* value (',' value)* ']'
ParseElements(text, acc) == AfterElement(ParseValue(text), acc)

\* After a member: '}' ends the dict, ',' brings the next member.
MemberSep(r, pair, acc) ==
    IF r = <<>> THEN ParseFail
    ELSE IF Head(r) = "}" THEN Parsed(PyDict(Append(acc, pair)), Tail(r))
    ELSE IF Head(r) = "," THEN ParseMembers(Tail(r), Append(acc, pair))
    ELSE ParseFail

AfterMember(e, key, acc) ==
    IF ~e.ok THEN ParseFail
    ELSE MemberSep(SkipWs(e.rest), [k |-> key, v |-> e.val], acc)

\* After a member's key: ':' and the member's value.
MemberValue(c, key, acc) ==
    IF c = <<>> \/ Head(c) # ":" THEN ParseFail
    ELSE AfterMember(ParseValue(Tail(c)), key, acc)

AfterKey(k, acc) ==
    IF ~k.ok THEN ParseFail ELSE MemberValue(SkipWs(k.rest), k.val.s, acc)

\* A member starts with its key, a string.
MemberKey(s, acc) ==
    IF s = <<>> \/ Head(s) # "\"" THEN ParseFail
    ELSE AfterKey(ScanString(Tail(s), <<>>), acc)

\* string ':' value (',' string ':' value)* '}'
ParseMembers(text, acc) == MemberKey(SkipWs(text), acc)

\* One value and nothing but whitespace after it, or ValueError.
LoadResult(r) ==
    IF r.ok /\ SkipWs(r.rest) = <<>>
    THEN [exc |-> "none", val |-> r.val]
    ELSE [exc |-> "ValueError", val |-> None]

json_load(text) == LoadResult(ParseValue(text))

-----------------------------------------------------------------------------
(* The two storage tiers.                                                  *)
(*                                                                         *)
(* file: what stands at the resource file's path.  kind is "missing" (no   *)
(* file: open(filename, 'r') raises FileNotFoundError, open(filename, 'w') *)
(* creates it), "unreadable" (the path cannot be opened: permission        *)
(* denied, or a directory stands there; open raises OSError in either      *)
(* mode) or "text" (a file holding the characters of text).                *)
(*                                                                         *)
(* environ: the entry QI_TOKEN of os.environ, has = FALSE when unset.      *)
(*                                                                         *)
(* procs: the processes that are inside store_account, between its         *)
(* statements, when several processes share the resource file.             *)

VARIABLES file, environ, last, enabled, procs

vars == <<file, environ, last, enabled, procs>>

Missing    == [kind |-> "missing", text |-> <<>>]
Unreadable == [kind |-> "unreadable", text |-> <<>>]
Text(text) == [kind |-> "text", text |-> text]

Unset      == [has |-> FALSE, val |-> <<>>]
SetTo(tok) == [has |-> TRUE, val |-> tok]

\* What an operation did: the tiers it left, what it returned, the exception
\* that left it ("none" when it returned), whether it called warnings.warn.
Outcome(f, e, ret, exc, warned) ==
    [file |-> f, environ |-> e, ret |-> ret, exc |-> exc, warned |-> warned]

Returned(v) == [exc |-> "none", val |-> v]
Raised(x)   == [exc |-> x, val |-> None]

\* os.environ.get('QI_TOKEN', None)
environ_get(e) == IF e.has THEN PyStr(e.val) ELSE None

\* len(v) of a value that has one
PyLen(v) == IF v.t = "str" THEN Len(v.s) ELSE Len(v.items)

\* accounts['token'], when json.load returned accounts.
token_field(accounts) ==
    IF accounts.exc # "none" THEN accounts
    ELSE Subscript(accounts.val, TokenKey)

\* The try block of read_account: open, json.load, accounts['token'].
read_try(f) ==
    IF f.kind # "text" THEN Raised("OSError")
    ELSE token_field(json_load(f.text))

\* The except clause catches OSError, KeyError and ValueError, nothing else.
Caught == {"OSError", "KeyError", "ValueError"}

read_except(tried) ==
    IF tried.exc \in Caught THEN Returned(None) ELSE tried

\* A faulty read_return: return token.
read_return_as_stored(token) ==
    IF token.exc # "none" THEN Raised(token.exc) ELSE Returned(token.val)

\* return token if (token and len(token)) else None
read_return(token) ==
    IF token.exc # "none" THEN Raised(token.exc)
    ELSE IF ~Truthy(token.val) THEN Returned(None)
    ELSE IF ~HasLen(token.val) THEN Raised("TypeError")
    ELSE IF PyLen(token.val) # 0 THEN Returned(token.val)
    ELSE Returned(None)

read_account(f) == read_return(read_except(read_try(f)))

\* A faulty load_account: the file is asked first, QI_TOKEN second.
load_account_file_first(e, f) ==
    IF read_account(f) # Returned(None) THEN read_account(f)
    ELSE Returned(environ_get(e))

\* A faulty load_account: no fallback to the file.
load_account_environ_only(e, f) ==
    IF Truthy(environ_get(e)) THEN Returned(environ_get(e)) ELSE Returned(None)

\* token = os.environ.get('QI_TOKEN', None) or read_account(filename)
load_account(e, f) ==
    LET token == environ_get(e)
    IN  IF Truthy(token) THEN Returned(token) ELSE read_account(f)

\* os.makedirs, open(filename, 'w'), json.dump: no exception is caught.
save_account(f, e, token) ==
    IF f.kind = "unreadable"
    THEN Outcome(f, e, None, "OSError", FALSE)
    ELSE Outcome(Text(json_dump(token)), e, None, "none", FALSE)

\* A faulty store_decide: the overwrite flag is read the wrong way round.
store_decide_flag_inverted(stored_token, f, e, token, overwrite) ==
    IF stored_token.exc # "none"
    THEN Outcome(f, e, None, stored_token.exc, FALSE)
    ELSE IF Truthy(stored_token.val) /\ stored_token.val # PyStr(token)
            /\ overwrite
    THEN Outcome(f, e, None, "none", TRUE)
    ELSE save_account(f, e, token)

\* A faulty store_decide: the file is read again before the decision.
store_decide_reread(stored_token, f, e, token, overwrite) ==
    IF read_account(f).exc # "none"
    THEN Outcome(f, e, None, read_account(f).exc, FALSE)
    ELSE IF Truthy(read_account(f).val) /\ read_account(f).val # PyStr(token)
            /\ ~overwrite
    THEN Outcome(f, e, None, "none", TRUE)
    ELSE save_account(f, e, token)

\* store_account from its second statement on.
store_decide(stored_token, f, e, token, overwrite) ==
    IF stored_token.exc # "none"
    THEN Outcome(f, e, None, stored_token.exc, FALSE)
    ELSE IF Truthy(stored_token.val) /\ stored_token.val # PyStr(token)
            /\ ~overwrite
    THEN Outcome(f, e, None, "none", TRUE)
    ELSE save_account(f, e, token)

store_account(f, e, token, overwrite) ==
    store_decide(read_account(f), f, e, token, overwrite)

\* A faulty delete_decide: the file is removed instead of emptied.
delete_decide_unlink(stored_token, f, e, token) ==
    IF stored_token.exc # "none"
    THEN Outcome(f, e, None, stored_token.exc, FALSE)
    ELSE IF stored_token.val = PyStr(token)
    THEN Outcome(Missing, e, None, "none", FALSE)
    ELSE Outcome(f, e, None, "none", FALSE)

\* A faulty delete_decide: whatever token is stored is deleted.
delete_decide_unmatched(stored_token, f, e, token) ==
    IF stored_token.exc # "none"
    THEN Outcome(f, e, None, stored_token.exc, FALSE)
    ELSE IF Truthy(stored_token.val)
    THEN save_account(f, e, <<>>)
    ELSE Outcome(f, e, None, "none", FALSE)

\* A faulty delete_decide: if (stored_token or '') == token.
delete_decide_none_as_empty(stored_token, f, e, token) ==
    IF stored_token.exc # "none"
    THEN Outcome(f, e, None, stored_token.exc, FALSE)
    ELSE IF stored_token.val = PyStr(token)
            \/ (~Truthy(stored_token.val) /\ token = <<>>)
    THEN save_account(f, e, <<>>)
    ELSE Outcome(f, e, None, "none", FALSE)

\* delete_account from its second statement on.
delete_decide(stored_token, f, e, token) ==
    IF stored_token.exc # "none"
    THEN Outcome(f, e, None, stored_token.exc, FALSE)
    ELSE IF stored_token.val = PyStr(token)
    THEN save_account(f, e, <<>>)
    ELSE Outcome(f, e, None, "none", FALSE)

delete_account(f, e, token) == delete_decide(read_account(f), f, e, token)

\* A faulty enable_account: os.environ.setdefault('QI_TOKEN', token).
enable_account_setdefault(f, e, token) ==
    Outcome(f, IF e.has THEN e ELSE SetTo(token), None, "none", FALSE)

\* os.environ['QI_TOKEN'] = token
enable_account(f, e, token) == Outcome(f, SetTo(token), None, "none", FALSE)

-----------------------------------------------------------------------------
(* The authentication factory.  A descriptor is what the coreapi           *)
(* constructors were given.                                                *)

NoAuth == [cls |-> "none", scheme |-> "", token |-> None,
           email |-> "", password |-> ""]

TokenAuthentication(token, scheme) ==
    [cls |-> "TokenAuthentication", scheme |-> scheme, token |-> token,
     email |-> "", password |-> ""]

BasicAuthentication(email, password) ==
    [cls |-> "BasicAuthentication", scheme |-> "", token |-> None,
     email |-> email, password |-> password]

\* return TokenAuthentication(token, scheme="token")
token_descriptor(token) ==
    IF token.exc # "none" THEN [exc |-> token.exc, auth |-> NoAuth]
    ELSE [exc |-> "none", auth |-> TokenAuthentication(token.val, "token")]

\* A faulty get_token_authentication: the token argument is not looked at.
get_token_authentication_always_load(f, e, arg) ==
    token_descriptor(load_account(e, f))

\* arg is the token argument, None when it is left out.
get_token_authentication(f, e, arg) ==
    token_descriptor(IF ~Truthy(arg) THEN load_account(e, f) ELSE Returned(arg))

get_basic_authentication(email, password) ==
    [exc |-> "none", auth |-> BasicAuthentication(email, password)]

-----------------------------------------------------------------------------
(* The state machine: one action per public function.                      *)
(*                                                                         *)
(* last records the call that was made last: the function, its arguments,  *)
(* what it returned or raised, and whether it warned.  afterSave says, for *)
(* a delete, how it relates to the call before it: "same" when that was a  *)
(* save_account of the same token that returned, "other" when it was one   *)
(* of another token, "no" otherwise.  enabled remembers the most recent    *)
(* enable_account call.                                                    *)

Call(op, token, given, overwrite, ret, exc, warned, auth, afterSave) ==
    [op |-> op, token |-> token, given |-> given, overwrite |-> overwrite,
     ret |-> ret, exc |-> exc, warned |-> warned, auth |-> auth,
     afterSave |-> afterSave]

NoCall == Call("none", <<>>, FALSE, FALSE, None, "none", FALSE, NoAuth, "no")

NeverEnabled == [called |-> FALSE, token |-> <<>>]

\* The processes that race for the resource file.
Procs == {"p1", "p2"}

\* A process: where it is in store_account(token, filename), the
\* stored_token it read, whether it warned, whether it wrote.
Proc(pc, token, stored, warned, wrote) ==
    [pc |-> pc, token |-> token, stored |-> stored, warned |-> warned,
     wrote |-> wrote]

\* A process that is not in store_account.
Idle == Proc("idle", <<>>, Returned(None), FALSE, FALSE)

\* Contents an external edit can have left in the resource file.
Obj(member) == <<"{">> \o member \o <<"}">>

Member(key, value) == Quoted(key) \o <<":">> \o value

ExampleTexts ==
    { <<>>,                                            \* empty file
      <<"{">>,                                         \* cut short
      <<"a">>,                                         \* not JSON
      <<"0", "1">>,                                    \* not a JSON number
      <<"[", "1", "]">>,                               \* a list
      <<"7">>,                                         \* a number
      <<"n", "u", "l", "l">>,                          \* null
      Quoted(<<"a">>),                                 \* a string
      Obj(<<>>),                                       \* no token field
      Obj(Member(<<"a">>, Quoted(<<"a">>))),           \* another field
      Obj(Member(TokenKey, <<"7">>)),                  \* token a number
      Obj(Member(TokenKey, <<"0">>)),                  \* token zero
      Obj(Member(TokenKey, <<"n", "u", "l", "l">>)),   \* token null
      Obj(Member(TokenKey, <<"t", "r", "u", "e">>)),   \* token true
      Obj(Member(TokenKey, <<"[", "1", "]">>)),        \* token a list
      Obj(Member(TokenKey, <<"[", "]">>)),             \* token an empty list
      Obj(Member(TokenKey, Quoted(<<"a">>)) \o <<",">>),   \* trailing comma
      Obj(Member(TokenKey, Quoted(<<"a">>)) \o <<",">>
            \o Member(TokenKey, Quoted(<<>>))),        \* duplicate key
      Obj(Member(TokenKey, <<"\"", "a", "\n", "\"">>)) \* raw newline in string
    }

InitFiles ==
    {Missing, Unreadable} \cup {Text(t) : t \in ExampleTexts}
        \cup {Text(json_dump(t)) : t \in Tokens}

Emails == {"bla@bla.bla"}

Passwords == {"secret", ""}

Init ==
    /\ file \in InitFiles
    /\ environ \in {Unset} \cup {SetTo(t) : t \in Tokens}
    /\ last = NoCall
    /\ enabled = NeverEnabled
    /\ procs = [p \in Procs |-> Idle]

\* The states the functions themselves leave: no resource file yet, or the
\* file save_account wrote.
InitWritten ==
    /\ file \in {Missing} \cup {Text(json_dump(t)) : t \in Tokens}
    /\ environ \in {Unset} \cup {SetTo(t) : t \in Tokens}
    /\ last = NoCall
    /\ enabled = NeverEnabled
    /\ procs = [p \in Procs |-> Idle]

\* A faulty Query: the token found is kept in QI_TOKEN.
Query_caching(op, r) ==
    /\ last' = Call(op, <<>>, FALSE, FALSE, r.val, r.exc, FALSE, NoAuth, "no")
    /\ file' = file
    /\ environ' = IF r.exc = "none" /\ r.val.t = "str" THEN SetTo(r.val.s)
                  ELSE environ
    /\ UNCHANGED procs

\* A call that returns a value and writes nothing.
Query(op, r) ==
    /\ last' = Call(op, <<>>, FALSE, FALSE, r.val, r.exc, FALSE, NoAuth, "no")
    /\ UNCHANGED <<file, environ, procs>>

\* A call that leaves the tiers as out says.
Command(op, token, overwrite, out, afterSave) ==
    /\ file' = out.file
    /\ environ' = out.environ
    /\ last' = Call(op, token, TRUE, overwrite, out.ret, out.exc, out.warned,
                    NoAuth, afterSave)
    /\ UNCHANGED procs

\* A call of the authentication factory.
Factory(op, token, given, r) ==
    /\ last' = Call(op, token, given, FALSE, None, r.exc, FALSE, r.auth, "no")
    /\ UNCHANGED <<file, environ, procs>>

Load ==
    /\ Query("load", load_account(environ, file))
    /\ UNCHANGED enabled

Read ==
    /\ Query("read", read_account(file))
    /\ UNCHANGED enabled

Store(token, overwrite) ==
    /\ Command("store", token, overwrite,
               store_account(file, environ, token, overwrite), "no")
    /\ UNCHANGED enabled

\* How a delete of token relates to the call before it.
AfterSave(token) ==
    IF last.op = "save" /\ last.exc = "none"
    THEN IF last.token = token THEN "same" ELSE "other"
    ELSE "no"

Delete(token) ==
    /\ Command("delete", token, FALSE, delete_account(file, environ, token),
               AfterSave(token))
    /\ UNCHANGED enabled

Save(token) ==
    /\ Command("save", token, FALSE, save_account(file, environ, token), "no")
    /\ UNCHANGED enabled

Enable(token) ==
    /\ Command("enable", token, FALSE, enable_account(file, environ, token), "no")
    /\ enabled' = [called |-> TRUE, token |-> token]

TokenAuth(given, token) ==
    /\ Factory("tokenAuth", token, given,
               get_token_authentication(file, environ,
                                        IF given THEN PyStr(token) ELSE None))
    /\ UNCHANGED enabled

BasicAuth(email, password) ==
    /\ Factory("basicAuth", <<>>, FALSE, get_basic_authentication(email, password))
    /\ UNCHANGED enabled

Next ==
    \/ Load
    \/ Read
    \/ \E token \in Tokens, overwrite \in BOOLEAN : Store(token, overwrite)
    \/ \E token \in Tokens : Delete(token)
    \/ \E token \in Tokens : Save(token)
    \/ \E token \in Tokens : Enable(token)
    \/ \E token \in Tokens : TokenAuth(TRUE, token)
    \/ TokenAuth(FALSE, <<>>)
    \/ \E email \in Emails, password \in Passwords : BasicAuth(email, password)

Spec == Init /\ [][Next]_vars

\* The functions called in any order on a resource file nothing else edits.
SpecWritten == InitWritten /\ [][Next]_vars

-----------------------------------------------------------------------------
(* Two processes in store_account(token, filename) at once, each with its  *)
(* own token and overwrite=False.  Nothing locks the file: the statement   *)
(* that reads stored_token and the statements that decide and write are    *)
(* two steps, and the other process can run between them.                  *)

RaceInit ==
    /\ file \in InitFiles
    /\ environ = Unset
    /\ last = NoCall
    /\ enabled = NeverEnabled
    /\ procs \in {[p \in Procs |-> Proc("read", IF p = "p1" THEN t1 ELSE t2,
                                        Returned(None), FALSE, FALSE)] :
                     t1 \in Tokens \ {<<>>}, t2 \in Tokens \ {<<>>}}
    /\ procs["p1"].token # procs["p2"].token

\* The process after stored_token = read_account(filename).
HasRead(pr, stored_token) ==
    Proc(IF stored_token.exc = "none" THEN "decide" ELSE "raised",
         pr.token, stored_token, FALSE, FALSE)

\* The process after the rest of store_account, which left out.
HasDecided(pr, out) ==
    Proc(IF out.exc = "none" THEN "done" ELSE "raised",
         pr.token, pr.stored, out.warned, out.exc = "none" /\ ~out.warned)

\* stored_token = read_account(filename)
StoreRead(p) ==
    /\ procs[p].pc = "read"
    /\ procs' = [procs EXCEPT ![p] = HasRead(procs[p], read_account(file))]
    /\ UNCHANGED <<file, environ, last, enabled>>

\* The file the rest of store_account leaves.
Written(out) == file' = out.file

\* The if statement and save_account, on the file as it is now.
StoreWrite(p) ==
    /\ procs[p].pc = "decide"
    /\ Written(store_decide(procs[p].stored, file, environ, procs[p].token, FALSE))
    /\ procs' = [procs EXCEPT ![p] =
                    HasDecided(procs[p],
                               store_decide(procs[p].stored, file, environ,
                                            procs[p].token, FALSE))]
    /\ UNCHANGED <<environ, last, enabled>>

RaceNext ==
    \/ \E p \in Procs : StoreRead(p)
    \/ \E p \in Procs : StoreWrite(p)

SpecRace == RaceInit /\ [][RaceNext]_vars

-----------------------------------------------------------------------------
(* Properties.                                                             *)

\* The file's token field is the string tok.
Holds(f, tok) == read_try(f) = Returned(PyStr(tok))

\* r is a non-empty string, returned.
NonEmptyString(r) == r.exc = "none" /\ r.val.t = "str" /\ r.val.s # <<>>

\* The file is a JSON object whose token field is a non-empty string.
HoldsNonEmptyString(f) == NonEmptyString(read_try(f))

\* What the call recorded in last returned or raised.
LastResult == [exc |-> last.exc, val |-> last.ret]

\* C1 as stated: after enable_account(T), for any string T and whatever the
\* file is, load_account returns T.
C1_SessionPrecedence ==
    last.op = "enable" => load_account(environ, file) = Returned(PyStr(last.token))

\* C1 amended: after enable_account(T) with T a non-empty string, whatever
\* the file is (missing, unreadable, corrupt, holding another or the same
\* token), load_account returns T.
C1_SessionPrecedenceNonEmpty ==
    (last.op = "enable" /\ last.token # <<>>)
        => load_account(environ, file) = Returned(PyStr(last.token))

\* enable_account(T) was called with T non-empty while the file holds
\* another non-empty token.
C1_Witness ==
    /\ last.op = "enable"
    /\ last.token # <<>>
    /\ HoldsNonEmptyString(file)
    /\ ~Holds(file, last.token)

\* C2: read_account never raises, and returns None whenever the file is not
\* a JSON object whose token field is a non-empty string.
C2_ReadTotal ==
    last.op = "read" =>
        /\ last.exc = "none"
        /\ ~HoldsNonEmptyString(file) => last.ret = None

\* C3: overwrite protection.  When the file holds a non-empty token T1,
\* store_account(T2, overwrite=False) with T2 # T1 leaves the file as it
\* is, warns and returns.
C3_OverwriteProtection ==
    [][(/\ last'.op = "store"
        /\ ~last'.overwrite
        /\ HoldsNonEmptyString(file)
        /\ ~Holds(file, last'.token))
          => (file' = file /\ last'.warned /\ last'.exc = "none")]_vars

\* A store_account without overwrite has warned and the file holds a
\* non-empty token other than the one it was to store.
C3_Witness ==
    /\ last.op = "store"
    /\ ~last.overwrite
    /\ last.warned
    /\ HoldsNonEmptyString(file)
    /\ ~Holds(file, last.token)

\* C4: from every prior state of the file (missing, or a file of any
\* content), store_account(T2, overwrite=True) leaves the file holding T2
\* and does not warn.
C4_StoreOverwrite ==
    [][(file.kind # "unreadable" /\ last'.op = "store" /\ last'.overwrite)
          => (Holds(file', last'.token) /\ ~last'.warned)]_vars

\* C5: round trip.  Once save_account(T) has returned, whatever the file was
\* before, read_account returns T when T is non-empty and None when T is
\* the empty string.
C5_RoundTrip ==
    (last.op = "save" /\ last.exc = "none")
        => read_account(file) =
              IF last.token # <<>> THEN Returned(PyStr(last.token))
              ELSE Returned(None)

\* save_account has written a token that needs escaping.
C5_Witness ==
    /\ last.op = "save"
    /\ last.exc = "none"
    /\ \E i \in 1..Len(last.token) : last.token[i] \in {"\"", "\\"}

\* C6: delete on match.  After save_account(T) and then delete_account(T),
\* read_account returns None and the file is still there, holding the
\* empty token.
C6_DeleteOnMatch ==
    (last.op = "delete" /\ last.afterSave = "same")
        => /\ read_account(file) = Returned(None)
           /\ file.kind = "text"
           /\ Holds(file, <<>>)

\* delete_account(T) has followed save_account(T) for a non-empty T.
C6_Witness ==
    /\ last.op = "delete"
    /\ last.afterSave = "same"
    /\ last.token # <<>>

\* C7: delete on mismatch.  After save_account(T1), delete_account(T2) with
\* T2 # T1 changes nothing: the file still holds T1, there is no warning
\* and no exception.
C7_DeleteOnMismatch ==
    [][(/\ last.op = "save"
        /\ last.exc = "none"
        /\ last'.op = "delete"
        /\ last'.token # last.token)
          => /\ file' = file
             /\ Holds(file', last.token)
             /\ ~last'.warned
             /\ last'.exc = "none"]_vars

\* delete_account(T2) has followed save_account(T1), both non-empty and
\* different, and the file holds a token.
C7_Witness ==
    /\ last.op = "delete"
    /\ last.afterSave = "other"
    /\ last.token # <<>>
    /\ HoldsNonEmptyString(file)

\* C8: fallback.  With QI_TOKEN unset, load_account returns (or raises)
\* exactly what read_account does; with no file either, it returns None.
C8_Fallback ==
    (last.op = "load" /\ ~environ.has)
        => /\ LastResult = read_account(file)
           /\ file = Missing => LastResult = Returned(None)

\* load_account was called with QI_TOKEN unset: once on a fresh path, once
\* on a file that holds a token.
C8_Witness ==
    /\ last.op = "load"
    /\ ~environ.has
    /\ file = Missing \/ HoldsNonEmptyString(file)
    /\ last.exc = "none"

\* C9: once enable_account has been called, QI_TOKEN is set and is the
\* token of the most recent enable_account call, whatever was called since.
C9_SessionPermanent ==
    enabled.called => environ = SetTo(enabled.token)

\* Another function was called after enable_account.
C9_Witness ==
    /\ enabled.called
    /\ last.op \in {"save", "store", "delete", "load", "read", "tokenAuth"}

\* C10: tier separation.  load_account, read_account and the two factory
\* functions change neither the file nor QI_TOKEN; enable_account leaves
\* the file alone; save_account, store_account and delete_account leave
\* QI_TOKEN alone.
C10_TierSeparation ==
    [][/\ last'.op \in {"load", "read", "tokenAuth", "basicAuth"}
          => (file' = file /\ environ' = environ)
       /\ last'.op = "enable" => file' = file
       /\ last'.op \in {"save", "store", "delete"} => environ' = environ]_vars

\* get_token_authentication() resolved the token through load_account while
\* both tiers hold something.
C10_Witness ==
    /\ last.op = "tokenAuth"
    /\ ~last.given
    /\ environ.has
    /\ file.kind = "text"

\* What the factory call recorded in last built or raised.
LastAuth == [exc |-> last.exc, auth |-> last.auth]

\* The descriptor carrying the value v, built without an exception.
Built(v) == [exc |-> "none", auth |-> TokenAuthentication(v, "token")]

Decides(p) == procs[p].pc = "decide" /\ procs'[p].pc # "decide"

\* The stored_token process p read is a token other than its own.
SawOther(p) ==
    /\ Truthy(procs[p].stored.val)
    /\ procs[p].stored.val # PyStr(procs[p].token)

\* C12 as stated: in every interleaving of the two store_account calls, a
\* write step that finds another non-empty token in the file leaves the
\* file alone and warns.
C12_NoClobber ==
    [][\A p \in Procs :
          (Decides(p) /\ HoldsNonEmptyString(file) /\ ~Holds(file, procs[p].token))
              => (file' = file /\ procs'[p].warned)]_vars

\* C12 amended: a store_account leaves the file alone and warns exactly
\* when its own read step saw another non-empty token; when its read step
\* saw no token it writes its token, whatever the file holds by then.
C12_LastWriteWins ==
    [][\A p \in Procs :
          Decides(p) =>
              /\ SawOther(p) => (file' = file /\ procs'[p].warned)
              /\ (~SawOther(p) /\ file.kind # "unreadable")
                    => (Holds(file', procs[p].token) /\ ~procs'[p].warned)]_vars

\* Both processes read before either wrote, and both have written: the
\* file holds the token of the one that wrote last.
C12_Witness ==
    /\ \A p \in Procs : procs[p].pc = "done" /\ procs[p].wrote
    /\ \E p \in Procs : Holds(file, procs[p].token)

\* store_account(last'.token, ...) wrote its token and did not warn.
StoreWrote ==
    /\ file' = Text(json_dump(last'.token))
    /\ ~last'.warned
    /\ last'.exc = "none"

\* C13: from every prior state of the file (missing, or a file of any
\* content), store_account(T, overwrite) either writes T without a warning
\* or leaves the file as it is and warns; and it writes whenever the file
\* holds no token or holds T already.
C13_WarnsIffNoWrite ==
    [][(file.kind # "unreadable" /\ last'.op = "store") =>
          /\ StoreWrote \/ (file' = file /\ last'.warned /\ last'.exc = "none")
          /\ (~HoldsNonEmptyString(file) \/ Holds(file, last'.token))
                => StoreWrote]_vars

\* C14: in every state the functions reach by themselves (no resource file
\* at first, or one save_account wrote; any calls with any tokens, the
\* empty string included), load_account and read_account return None or a
\* non-empty string, never the empty string.
C14_NeverEmptyString ==
    last.op \in {"load", "read"} =>
        /\ last.exc = "none"
        /\ last.ret = None \/ (last.ret.t = "str" /\ last.ret.s # <<>>)

\* load_account was called with QI_TOKEN set to the empty string and the
\* file holding the empty token.
C14_Witness ==
    /\ last.op = "load"
    /\ environ = SetTo(<<>>)
    /\ Holds(file, <<>>)
    /\ LastResult = Returned(None)

\* C15: when read_account returns None (file missing, corrupt or holding
\* the empty token), delete_account(T) leaves the file exactly as it is,
\* for every string T, the empty string included.
C15_DeleteLeavesNoToken ==
    [][(last'.op = "delete" /\ read_account(file) = Returned(None))
          => file' = file]_vars

\* delete_account('') was called with no resource file, and there is none.
C15_Witness ==
    /\ last.op = "delete"
    /\ last.token = <<>>
    /\ last.exc = "none"
    /\ file = Missing

====
